---- MODULE Spec2Model ----
(***************************************************************************)
(* bc125csv: CSV importer (importer.py) and command handler (handler.py).  *)
(* Text is modelled as a sequence of one-character strings, so that the    *)
(* regular expressions and the str methods of the source operate on        *)
(* characters.                                                             *)
(***************************************************************************)
EXTENDS Integers, Sequences, FiniteSets, TLC

VARIABLES
    value,      \* text handed to parse_frequency / parse_tq
    freq,       \* result of parse_frequency(value)
    freq2,      \* result of parse_frequency on that result
    tqcode,     \* result of parse_tq(value)
    rowres,     \* outcome of parse_row on a row holding value
    rows,       \* the records csv.reader yields for the input
    row,        \* number of records read() has consumed
    channels,   \* the dict index -> Channel
    errors,     \* read(): number of encountered errors
    reports,    \* what print_error has written, in order
    ret,        \* value returned by read()
    command,    \* params.command
    banks,      \* params.banks
    empty,      \* params.empty
    model,      \* what scanner.get_model() answers
    device,     \* indices of the slots programmed in the scanner
    ops,        \* calls issued to the scanner, in order
    bank,       \* position of the bank loop in params.banks
    slot,       \* the index of the inner loop
    status,     \* how main() ended
    pc          \* position in the code

fvars == <<value, freq, freq2, tqcode, rowres>>

rvars == <<rows, row, channels, errors, reports, ret>>

mvars == <<command, banks, empty, model, device, ops, bank, slot, status>>

vars == <<fvars, rvars, mvars, pc>>

(***************************************************************************)
(* Characters and the str methods used by the source                       *)
(***************************************************************************)
LowerLetters == <<"a","b","c","d","e","f","g","h","i","j","k","l","m",
                  "n","o","p","q","r","s","t","u","v","w","x","y","z">>

UpperLetters == <<"A","B","C","D","E","F","G","H","I","J","K","L","M",
                  "N","O","P","Q","R","S","T","U","V","W","X","Y","Z">>

DigitChars == <<"0","1","2","3","4","5","6","7","8","9">>

Digits == {DigitChars[i] : i \in 1..10}

Whitespace == {" ", "\t", "\n"}

Min(S) == CHOOSE x \in S : \A y \in S : x <= y

Max(S) == CHOOSE x \in S : \A y \in S : x >= y

SeqsUpTo(S, n) == UNION {[1..k -> S] : k \in 0..n}

\* str.lower / str.upper on one character and on a text
LowerCh(c) ==
    IF \E i \in 1..26 : UpperLetters[i] = c
    THEN LowerLetters[CHOOSE i \in 1..26 : UpperLetters[i] = c]
    ELSE c

UpperCh(c) ==
    IF \E i \in 1..26 : LowerLetters[i] = c
    THEN UpperLetters[CHOOSE i \in 1..26 : LowerLetters[i] = c]
    ELSE c

Lower(s) == [i \in 1..Len(s) |-> LowerCh(s[i])]

Upper(s) == [i \in 1..Len(s) |-> UpperCh(s[i])]

\* s[:n] and s[n:] (0-based slice bounds, as in the source)
Take(s, n) == SubSeq(s, 1, Min({n, Len(s)}))

Drop(s, n) == SubSeq(s, Min({n, Len(s)}) + 1, Len(s))

\* str.lstrip(chars), str.rstrip(chars), str.strip()
LStrip(s, set) ==
    LET keep == {i \in 1..Len(s) : s[i] \notin set}
    IN  IF keep = {} THEN << >> ELSE SubSeq(s, Min(keep), Len(s))

RStrip(s, set) ==
    LET keep == {i \in 1..Len(s) : s[i] \notin set}
    IN  IF keep = {} THEN << >> ELSE SubSeq(s, 1, Max(keep))

Strip(s) == RStrip(LStrip(s, Whitespace), Whitespace)

\* str.ljust(n, c) and str.zfill(n)
LJust(s, n, c) ==
    IF Len(s) >= n THEN s ELSE s \o [i \in 1..(n - Len(s)) |-> c]

ZFill(s, n) ==
    IF Len(s) >= n THEN s ELSE [i \in 1..(n - Len(s)) |-> "0"] \o s

StartsWith(s, p) == Len(s) >= Len(p) /\ SubSeq(s, 1, Len(p)) = p

\* length of the longest prefix of s made of characters of set
RunLen(s, set) ==
    LET stops == {i \in 1..Len(s) : s[i] \notin set}
    IN  IF stops = {} THEN Len(s) ELSE Min(stops) - 1

\* the regex anchor $ : end of text, or just before a final newline
AtEnd(s) == s = << >> \/ s = <<"\n">>

\* a Python value that may be None
None == [ok |-> FALSE, val |-> << >>]

Some(v) == [ok |-> TRUE, val |-> v]

(***************************************************************************)
(* Importer.parse_frequency                                                *)
(***************************************************************************)
\* \s* : the text after its leading blanks
SkipBlanks(s) == Drop(s, RunLen(s, Whitespace))

\* (?:word)? with re.I : the text after the word, if it starts with it
SkipWord(s, word) == IF StartsWith(Lower(s), word) THEN Drop(s, Len(word)) ELSE s

\* (\s{0}\.\d+)? : length of the point and the digit run after it, 0 without
FracLen(s) ==
    IF s # << >> /\ s[1] = "." /\ RunLen(Drop(s, 1), Digits) > 0
    THEN 1 + RunLen(Drop(s, 1), Digits)
    ELSE 0

\* the match with n1 leading digits and a fractional group of n2 characters
FreqMatch(v, n1, n2) ==
    [match |-> n1 \in 1..4 /\ AtEnd(SkipWord(SkipBlanks(Drop(v, n1 + n2)), <<"m","h","z">>)),
     g1 |-> Take(v, n1),
     g2 |-> SubSeq(v, n1 + 1, n1 + n2)]

\* RE_FREQ = ^(\d{1,4})(\s{0}\.\d+)?\s*(?:mhz)?$ with re.I
RE_FREQ(v) == FreqMatch(v, RunLen(v, Digits), FracLen(Drop(v, RunLen(v, Digits))))

\* ".".join((group(1).lstrip("0"), (group(2) or "")[:5].lstrip(".").ljust(4, "0")))
FreqJoin(m) ==
    IF m.match
    THEN Some(LStrip(m.g1, {"0"}) \o <<".">>
              \o LJust(LStrip(Take(m.g2, 5), {"."}), 4, "0"))
    ELSE None

\* the fraction cut one character early
parse_frequency_short(v) ==
    IF RE_FREQ(v).match
    THEN Some(LStrip(RE_FREQ(v).g1, {"0"}) \o <<".">>
              \o LJust(LStrip(Take(RE_FREQ(v).g2, 4), {"."}), 4, "0"))
    ELSE None

parse_frequency(v) == FreqJoin(RE_FREQ(v))

(***************************************************************************)
(* Tone tables of bc125csv.scanner (an excerpt that keeps the order and    *)
(* the notation: CTCSS tones without leading zero, DCS codes zero-padded   *)
(* to 3 digits)                                                            *)
(***************************************************************************)
CTCSS_TONES == << <<"6","7",".","0">>, <<"6","9",".","3">>, <<"1","1","4",".","8">>, <<"2","5","4",".","1">> >>

DCS_CODES == << <<"0","2","3">>, <<"0","2","6">>, <<"1","5","5">>, <<"7","5","4">> >>

\* list.index: 0-based position of the first occurrence
IndexOf(table, x) == Min({i \in 1..Len(table) : table[i] = x}) - 1

InTable(table, x) == \E i \in 1..Len(table) : table[i] = x

(***************************************************************************)
(* Importer.parse_tq                                                       *)
(***************************************************************************)
NoneN == [ok |-> FALSE, val |-> 0]

\* (\d{2,3}\.\d)\s*(?:hz)?$ on the text s that starts with n digits
CtcssMatch(s, n) ==
    [match |-> /\ n \in 2..3
               /\ Len(s) >= n + 2
               /\ s[n + 1] = "."
               /\ s[n + 2] \in Digits
               /\ AtEnd(SkipWord(SkipBlanks(Drop(s, n + 2)), <<"h","z">>)),
     g1 |-> Take(s, n + 2)]

\* (\d{2,3})$ on the text s that starts with n digits
DcsMatch(s, n) == [match |-> n \in 2..3 /\ AtEnd(Drop(s, n)), g1 |-> Take(s, n)]

CtcssTail(s) == CtcssMatch(s, RunLen(s, Digits))

DcsTail(s) == DcsMatch(s, RunLen(s, Digits))

\* RE_CTCSS = ^(?:ctcss)?\s*(\d{2,3}\.\d)\s*(?:hz)?$ with re.I
RE_CTCSS(v) == CtcssTail(SkipBlanks(SkipWord(v, <<"c","t","c","s","s">>)))

\* RE_DCS = ^(?:dcs)?\s*(\d{2,3})$ with re.I
RE_DCS(v) == DcsTail(SkipBlanks(SkipWord(v, <<"d","c","s">>)))

\* the two table lookups that follow the keywords
ToneLookup(mc, md) ==
    IF mc.match /\ InTable(CTCSS_TONES, LStrip(mc.g1, {"0"}))
    THEN Some(IndexOf(CTCSS_TONES, LStrip(mc.g1, {"0"})) + 64)
    ELSE IF md.match /\ InTable(DCS_CODES, ZFill(md.g1, 3))
    THEN Some(IndexOf(DCS_CODES, ZFill(md.g1, 3)) + 128)
    ELSE NoneN

parse_tq(v) ==
    IF v \in {<< >>, <<"n","o","n","e">>, <<"a","l","l">>} THEN Some(0)
    ELSE IF v \in {<<"s","e","a","r","c","h">>} THEN Some(127)
    ELSE IF v \in {<<"n","o","t","o","n","e">>, <<"n","o"," ","t","o","n","e">>} THEN Some(240)
    ELSE ToneLookup(RE_CTCSS(v), RE_DCS(v))

(***************************************************************************)
(* Importer.parse_row                                                      *)
(***************************************************************************)
DigitVal(c) == (CHOOSE i \in 1..10 : DigitChars[i] = c) - 1

RECURSIVE DigitsValue(_)
DigitsValue(d) ==
    IF d = << >> THEN 0
    ELSE 10 * DigitsValue(SubSeq(d, 1, Len(d) - 1)) + DigitVal(d[Len(d)])

IsSigned(t) == t # << >> /\ t[1] \in {"+", "-"}

\* value of the sign-free digits d of the text t
SignedValue(t, d) ==
    IF d # << >> /\ \A i \in 1..Len(d) : d[i] \in Digits
    THEN Some(IF IsSigned(t) /\ t[1] = "-" THEN 0 - DigitsValue(d) ELSE DigitsValue(d))
    ELSE NoneN

IntOf(t) == SignedValue(t, IF IsSigned(t) THEN Drop(t, 1) ELSE t)

\* int(text): surrounding whitespace, an optional sign, decimal digits
int(s) == IntOf(Strip(s))

\* string.ascii_letters + string.digits + "!@#$%&*()-/<>.? "
ValidNameChars ==
    {LowerLetters[i] : i \in 1..26} \cup {UpperLetters[i] : i \in 1..26}
    \cup Digits
    \cup {"!", "@", "#", "$", "%", "&", "*", "(", ")", "-", "/", "<", ">",
          ".", "?", " "}

Channel(i, n, f, m, t, d, l, p) ==
    [index |-> i, name |-> n, frequency |-> f, modulation |-> m,
     tqcode |-> t, delay |-> d, lockout |-> l, priority |-> p]

NoChannel == Channel(0, << >>, << >>, << >>, 0, 0, FALSE, FALSE)

\* raise ParseError(msg) and return Channel(...)
ParseError(msg) == [ok |-> FALSE, err |-> msg, channel |-> NoChannel]

Parsed(ch) == [ok |-> TRUE, err |-> "", channel |-> ch]

\* the text -> bool rule of the lockout and the priority column
BoolText(s) ==
    IF s \in {<<"0">>, <<"n","o">>, <<"f","a","l","s","e">>} THEN [ok |-> TRUE, val |-> FALSE]
    ELSE IF s \in {<<"1">>, <<"y","e","s">>, <<"t","r","u","e">>} THEN [ok |-> TRUE, val |-> TRUE]
    ELSE [ok |-> FALSE, val |-> FALSE]

\* the length test without the test of the text
PresentByLength(data, i) == Len(data) > i

\* len(data) > i and data[i], with the 0-based column i of the source
Present(data, i) == Len(data) > i /\ data[i + 1] # << >>

Modulation(data) == IF Present(data, 3) THEN Upper(data[4]) ELSE <<"A","U","T","O">>

Tone(data) == IF Present(data, 4) THEN parse_tq(data[5]) ELSE Some(0)

Delay(data) == IF Present(data, 5) THEN int(data[6]) ELSE Some(2)

\* columns 6 (lockout) and 7 (priority)
Flag(data, i) ==
    IF Present(data, i) THEN BoolText(Lower(data[i + 1]))
    ELSE [ok |-> TRUE, val |-> FALSE]

\* the checks of parse_row, in the order of the source
CheckRow(index, name, frequency, modulation, tq, delay, lockout, priority) ==
    IF ~index.ok \/ index.val \notin 1..500
        THEN ParseError("Invalid channel")
    ELSE IF \E i \in 1..Len(name) : name[i] \notin ValidNameChars
        THEN ParseError("Invalid name")
    ELSE IF ~frequency.ok \/ frequency.val = << >>
        THEN ParseError("Invalid frequency")
    ELSE IF modulation \notin {<<"F","M">>, <<"A","M">>, <<"A","U","T","O">>, <<"N","F","M">>}
        THEN ParseError("Invalid modulation")
    ELSE IF ~tq.ok
        THEN ParseError("Invalid CTCSS/DCS")
    ELSE IF ~delay.ok \/ delay.val \notin {-10, -5, 0, 1, 2, 3, 4, 5}
        THEN ParseError("Invalid delay")
    ELSE IF ~lockout.ok
        THEN ParseError("Invalid lockout")
    ELSE IF ~priority.ok
        THEN ParseError("Invalid priority")
    ELSE Parsed(Channel(index.val, name, frequency.val, modulation,
                        tq.val, delay.val, lockout.val, priority.val))

parse_row(data) ==
    CheckRow(int(data[1]), data[2], parse_frequency(data[3]), Modulation(data),
             Tone(data), Delay(data), Flag(data, 6), Flag(data, 7))

(***************************************************************************)
(* Importer.read                                                           *)
(***************************************************************************)
\* A record of csv.reader: its fields, and the number of lines of the file
\* it was read from (a quoted field may hold line breaks).
Record(fields, nlines) == [fields |-> fields, nlines |-> nlines]

\* data = list(map(str.strip, data))
Trim(data) == [i \in 1..Len(data) |-> Strip(data[i])]

NoChannels == << >>

\* the locals of read() and the branch its last iteration took
ReadState(chs, errs, reps, br) ==
    [channels |-> chs, errors |-> errs, reports |-> reps, branch |-> br]

\* the continue statements that leave the dict and the counter alone
Skip(st, br) == ReadState(st.channels, st.errors, st.reports, br)

\* print_error(line, err); errors += 1; continue
print_error(st, line, err, br) ==
    ReadState(st.channels, st.errors + 1,
              Append(st.reports, [line |-> line, msg |-> err]), br)

\* channels[channel.index] = channel
Store(st, ch) ==
    ReadState([i \in DOMAIN st.channels \cup {ch.index} |->
                  IF i = ch.index THEN ch ELSE st.channels[i]],
              st.errors, st.reports, "accepted")

\* the rules without the one for comments and records without channel
ClassifyNoComment(r, data) ==
    IF r = 0 THEN "header"
    ELSE IF data = << >> THEN "empty"
    ELSE IF Len(data) < 3 THEN "short"
    ELSE "data"

\* the tests at the head of the loop body, for the record number r (0-based)
Classify(r, data) ==
    IF r = 0 THEN "header"
    ELSE IF data = << >> THEN "empty"
    ELSE IF Len(data) < 3 THEN "short"
    ELSE IF Trim(data)[1] = << >> \/ Trim(data)[1][1] = "#" THEN "comment"
    ELSE "data"

\* the rest of the loop body, given the outcome res of parse_row
DataRow(st, line, res) ==
    IF ~res.ok THEN print_error(st, line, res.err, "invalid")
    ELSE IF res.channel.index \in DOMAIN st.channels
    THEN print_error(st, line, "Channel was seen before", "duplicate")
    ELSE Store(st, res.channel)

\* one iteration of: for row, data in enumerate(csvreader)
ReadRow(st, r, data) ==
    IF Classify(r, data) = "data"
    THEN DataRow(st, r + 1, parse_row(Trim(data)))
    ELSE Skip(st, Classify(r, data))

\* the dict is returned whatever the counter says
ReadResultAlways(st) == Some(st.channels)

\* if not errors: return channels
ReadResult(st) == IF st.errors = 0 THEN Some(st.channels) ELSE None

\* the whole loop, over the first n records
RECURSIVE ReadRows(_, _)
ReadRows(recs, n) ==
    IF n = 0 THEN ReadState(NoChannels, 0, << >>, "")
    ELSE ReadRow(ReadRows(recs, n - 1), n - 1, recs[n].fields)

read(recs) == ReadResult(ReadRows(recs, Len(recs)))

(***************************************************************************)
(* Values of the variables a specification does not use                    *)
(***************************************************************************)
FIdle ==
    /\ value = << >> /\ freq = None /\ freq2 = None /\ tqcode = NoneN
    /\ rowres = ParseError("")

RIdle ==
    /\ rows = << >> /\ row = 0 /\ channels = NoChannels /\ errors = 0
    /\ reports = << >> /\ ret = None

MIdle ==
    /\ command = "" /\ banks = << >> /\ empty = FALSE /\ model = ""
    /\ device = {} /\ ops = << >> /\ bank = 0 /\ slot = 0 /\ status = ""

(***************************************************************************)
(* parse_frequency on its own: SpecFreq                                    *)
(***************************************************************************)
MaxIntDigits == 5

MaxFracDigits == 5

FreqTexts ==
    { ip \o fp \o sf :
        ip \in SeqsUpTo({"0", "4"}, MaxIntDigits),
        fp \in {<< >>} \cup {<<".">> \o d : d \in SeqsUpTo({"0", "6"}, MaxFracDigits)},
        sf \in {<< >>, <<" ">>, <<"M","H","z">>, <<" ","m","h","z">>, <<"m","h">>, <<"\n">>} }

\* a row whose only doubtful field is the frequency
FreqRow(v) == << <<"1">>, <<"P","M","R">>, v >>

InitFreq ==
    /\ value \in FreqTexts
    /\ freq = None /\ freq2 = None /\ tqcode = NoneN /\ rowres = ParseError("")
    /\ RIdle /\ MIdle
    /\ pc = "start"

CallParseFrequency ==
    /\ pc = "start"
    /\ freq' = parse_frequency(value)
    /\ pc' = "parsed"
    /\ UNCHANGED <<value, freq2, tqcode, rowres, rvars, mvars>>

ParseRowFrequency ==
    /\ pc = "parsed"
    /\ rowres' = parse_row(FreqRow(value))
    /\ pc' = "rowed"
    /\ UNCHANGED <<value, freq, freq2, tqcode, rvars, mvars>>

\* the normalised text is parsed again, as when an exported file is imported
ReparseFrequency ==
    /\ pc = "rowed"
    /\ freq.ok
    /\ freq2' = parse_frequency(freq.val)
    /\ pc' = "done"
    /\ UNCHANGED <<value, freq, tqcode, rowres, rvars, mvars>>

NextFreq == CallParseFrequency \/ ParseRowFrequency \/ ReparseFrequency

SpecFreq == InitFreq /\ [][NextFreq]_vars

\* The texts of the numeric grammar: i integer digits (1 to 4), an optional
\* fractional part of f digits, w blanks, an optional MHz suffix in any
\* letter case (and the line end the anchor $ tolerates).
IsFreqText(v) ==
    \E i \in 1..4, f \in 0..Len(v), s \in {0, 3}, e \in {0, 1} :
        LET fl == IF f = 0 THEN 0 ELSE f + 1
            w  == Len(v) - (i + fl + s + e)
        IN  /\ w >= 0
            /\ \A k \in 1..i : v[k] \in Digits
            /\ f > 0 => v[i + 1] = "." /\ \A k \in (i + 2)..(i + fl) : v[k] \in Digits
            /\ \A k \in (i + fl + 1)..(i + fl + w) : v[k] \in Whitespace
            /\ s = 3 => Lower(SubSeq(v, i + fl + w + 1, i + fl + w + 3)) = <<"m","h","z">>
            /\ e = 1 => v[Len(v)] = "\n"

\* integer part without its leading zeros, a point, the first 4 fractional
\* digits of the text with zeros in the places the text leaves open
NormalForm(v) ==
    LET i  == RunLen(v, Digits)
        z  == RunLen(v, {"0"})
        fd == IF Len(v) > i /\ v[i + 1] = "."
              THEN SubSeq(v, i + 2, i + 1 + RunLen(SubSeq(v, i + 2, Len(v)), Digits))
              ELSE << >>
    IN  SubSeq(v, z + 1, i) \o <<".">>
        \o [k \in 1..4 |-> IF k <= Len(fd) THEN fd[k] ELSE "0"]

C6_WitnessRejected ==
    /\ pc = "rowed" /\ value = <<"4","4","4","4","4",".","0">> /\ ~rowres.ok

\* C10: parsing the result of parse_frequency again is accepted and gives the
\* same text.
C10_FrequencyIdempotent ==
    pc = "done" => freq2 = freq

(***************************************************************************)
(* parse_tq on its own: SpecTq                                             *)
(***************************************************************************)
MaxPad == 1

Blanks(n) == [i \in 1..n |-> " "]

Entry(text, code) == [text |-> text, code |-> code]

\* The tone vocabulary in lower case, with the code of each text: the three
\* keywords, the notations of a CTCSS tone (114.8, 114.8hz, ctcss 114.8 hz)
\* and of a DCS code (026, 26, dcs026, dcs 026), with 0..MaxPad blanks
\* wherever the notation allows them.
ToneVocabulary ==
    {Entry(<<"n","o","n","e">>, 0), Entry(<<"s","e","a","r","c","h">>, 127), Entry(<<"n","o"," ","t","o","n","e">>, 240)}
    \cup { Entry(pre \o CTCSS_TONES[i] \o Blanks(p) \o post, 64 + i - 1) :
             i \in 1..Len(CTCSS_TONES), p \in 0..MaxPad,
             pre \in {<< >>, <<"c","t","c","s","s"," ">>}, post \in {<< >>, <<"h","z">>} }
    \cup { Entry(pre \o Blanks(p)
                   \o (IF bare THEN LStrip(DCS_CODES[i], {"0"}) ELSE DCS_CODES[i]),
                 128 + i - 1) :
             i \in 1..Len(DCS_CODES), p \in 0..MaxPad,
             pre \in {<< >>, <<"d","c","s">>}, bare \in BOOLEAN }

RECURSIVE CaseVariants(_)
CaseVariants(s) ==
    IF s = << >> THEN {<< >>}
    ELSE {<<c>> \o t : c \in {LowerCh(s[1]), UpperCh(s[1])},
                       t \in CaseVariants(Tail(s))}

NoToneTexts == {<<"x","x">>, <<"6">>, <<"9","9","9">>, <<"1","2",".","3">>, <<"d","c","s"," ","9","9","9">>, <<"1","1","5","5">>, <<"6","7",".","0"," ","h">>}

TqTexts == UNION {CaseVariants(e.text) : e \in ToneVocabulary} \cup NoToneTexts

\* a row whose only doubtful field is the tone
TqRow(v) == << <<"1">>, <<"P","M","R">>, <<"4","4","6",".","0","0","6","2">>, <<"F","M">>, v >>

InitTq ==
    /\ value \in TqTexts
    /\ freq = None /\ freq2 = None /\ tqcode = NoneN /\ rowres = ParseError("")
    /\ RIdle /\ MIdle
    /\ pc = "start"

CallParseTq ==
    /\ pc = "start"
    /\ tqcode' = parse_tq(value)
    /\ pc' = "parsed"
    /\ UNCHANGED <<value, freq, freq2, rowres, rvars, mvars>>

ParseRowTq ==
    /\ pc = "parsed"
    /\ rowres' = parse_row(TqRow(value))
    /\ pc' = "rowed"
    /\ UNCHANGED <<value, freq, freq2, tqcode, rvars, mvars>>

NextTq == CallParseTq \/ ParseRowTq

SpecTq == InitTq /\ [][NextTq]_vars

InVocabulary(v) == \E e \in ToneVocabulary : e.text = Lower(v)

CodeOf(v) == (CHOOSE e \in ToneVocabulary : e.text = Lower(v)).code

\* C7: a text of the tone vocabulary, in any letter case, gives its code
\* (none 0, search 127, no tone 240, CTCSS 64 + position, DCS 128 +
\* position); any other text gives the not-found value, which parse_row turns
\* into the error "Invalid CTCSS/DCS".
C7_ToneEncoder ==
    /\ pc # "start" =>
          IF InVocabulary(value) THEN tqcode = Some(CodeOf(value))
          ELSE tqcode = NoneN
    /\ pc = "rowed" =>
          IF InVocabulary(value)
          THEN rowres.ok /\ rowres.channel.tqcode = CodeOf(value)
          ELSE rowres = ParseError("Invalid CTCSS/DCS")

(***************************************************************************)
(* main, command verify: read() row by row, then the exit (SpecRead)       *)
(***************************************************************************)
MaxRows == 3

\* records a file can hold: a header, an empty line, a record short of
\* fields, a comment, a record without channel, valid records (one of them
\* repeating index 1, one holding a line break inside a quoted field) and
\* records with a field that fails validation
RowCatalogue ==
    { Record(<< <<"C","h","a","n","n","e","l">>, <<"N","a","m","e">>, <<"F","r","e","q","u","e","n","c","y">> >>, 1),
      Record(<< >>, 1),
      Record(<< <<"1">>, <<"P","M","R">> >>, 1),
      Record(<< <<" ","#"," ","1">>, <<"P","M","R">>, <<"4","4","6">> >>, 1),
      Record(<< <<" ">>, <<"P","M","R">>, <<"4","4","6">> >>, 1),
      Record(<< <<"1">>, <<"P","M","R"," ","1">>, <<"4","4","6",".","0","0","6","2">>, <<"F","M">>, <<"n","o","n","e">>, <<"2">>, <<"n","o">>, <<"n","o">> >>, 1),
      Record(<< <<" ","0","1"," ">>, <<"P","M","R"," ","1","b">>, <<" ","0","4","4","6",".","0","0","6","2","5"," ","M","H","z"," ">> >>, 1),
      Record(<< <<"2">>, <<"P","M","R"," ","2">>, <<"4","4","6",".","0","1","8","7">>, <<"n","f","m">>, <<"d","c","s"," ","0","2","6">>, <<"-","5">>, <<"Y","E","S">>, <<"1">> >>, 1),
      Record(<< <<"2">>, <<"P","M","R"," ","2">>, <<"a","b","c">> >>, 1),
      Record(<< <<"5","0","1">>, <<"P","M","R">>, <<"4","4","6">> >>, 1),
      Record(<< <<"3">>, <<"P","M","R"," ","3","\n">>, <<"4","4","6">> >>, 2) }

Files == SeqsUpTo(RowCatalogue, MaxRows)

ReadStart ==
    /\ row = 0 /\ channels = NoChannels /\ errors = 0 /\ reports = << >>
    /\ ret = None

InitRead ==
    /\ rows \in Files
    /\ ReadStart
    /\ FIdle
    /\ command = "verify" /\ banks = << >> /\ empty = FALSE /\ model = ""
    /\ device = {} /\ ops = << >> /\ bank = 0 /\ slot = 0 /\ status = ""
    /\ pc = "read"

\* one iteration of the loop of read(), taking the branch out
ReadLoop(out) ==
    /\ \E nx \in {ReadRow(ReadState(channels, errors, reports, ""), row,
                          rows[row + 1].fields)} :
           /\ nx.branch = out
           /\ channels' = nx.channels
           /\ errors' = nx.errors
           /\ reports' = nx.reports
    /\ row' = row + 1
    /\ UNCHANGED <<rows, ret, fvars, mvars, pc>>

\* if not row: continue
SkipHeader ==
    /\ pc = "read"
    /\ row < Len(rows)
    /\ ReadLoop("header")

\* if not data: continue
SkipEmpty ==
    /\ pc = "read"
    /\ row < Len(rows)
    /\ ReadLoop("empty")

\* if len(data) < 3: continue
SkipShort ==
    /\ pc = "read"
    /\ row < Len(rows)
    /\ ReadLoop("short")

\* if not data[0] or data[0].startswith("#"): continue
SkipComment ==
    /\ pc = "read"
    /\ row < Len(rows)
    /\ ReadLoop("comment")

\* except ParseError
RowInvalid ==
    /\ pc = "read"
    /\ row < Len(rows)
    /\ ReadLoop("invalid")

\* if channel.index in channels
RowDuplicate ==
    /\ pc = "read"
    /\ row < Len(rows)
    /\ ReadLoop("duplicate")

\* channels[channel.index] = channel
RowAccepted ==
    /\ pc = "read"
    /\ row < Len(rows)
    /\ ReadLoop("accepted")

\* end of the input: if not errors: return channels
ReadReturn ==
    /\ pc = "read"
    /\ row = Len(rows)
    /\ ret' = ReadResult(ReadState(channels, errors, reports, ""))
    /\ pc' = "returned"
    /\ UNCHANGED <<rows, row, channels, errors, reports, fvars, mvars>>

\* the test that lets every result of read() through
ReadFailedNever(r) == FALSE

\* if channels is None
ReadFailed(r) == ~r.ok

\* sys.exit(message) if channels is None, else sys.exit()
VerifyExit ==
    /\ pc = "returned"
    /\ command = "verify"
    /\ status' = IF ReadFailed(ret) THEN "errors in csv" ELSE "ok"
    /\ pc' = "exit"
    /\ UNCHANGED <<command, banks, empty, model, device, ops, bank, slot,
                   rvars, fvars>>

NextRead ==
    \/ SkipHeader \/ SkipEmpty \/ SkipShort \/ SkipComment
    \/ RowInvalid \/ RowDuplicate \/ RowAccepted
    \/ ReadReturn \/ VerifyExit

SpecRead == InitRead /\ [][NextRead]_vars

\* ---- what the claims say about a file, stated on the records rows[1..n] ----

Fields(k) == rows[k].fields

\* a data row: not the first row, not empty, at least 3 fields, and a first
\* field that after trimming is neither empty nor starts with "#"
IsDataRow(k) ==
    /\ k > 1
    /\ Fields(k) # << >>
    /\ Len(Fields(k)) >= 3
    /\ Strip(Fields(k)[1]) # << >>
    /\ Strip(Fields(k)[1])[1] # "#"

IsSkippedRow(k) == ~IsDataRow(k)

RowChannel(k) == parse_row(Trim(Fields(k))).channel

\* a data row all of whose fields pass validation
IsValidRow(k) == IsDataRow(k) /\ parse_row(Trim(Fields(k))).ok

\* a valid row whose index no earlier accepted row has
RECURSIVE IsAcceptedRow(_)
IsAcceptedRow(k) ==
    /\ IsValidRow(k)
    /\ \A j \in 1..(k - 1) :
          IsAcceptedRow(j) => RowChannel(j).index # RowChannel(k).index

IsOffendingRow(k) == IsDataRow(k) /\ ~IsAcceptedRow(k)

OffendingRows(n) == {k \in 1..n : IsOffendingRow(k)}

AcceptedRows(n) == {k \in 1..n : IsAcceptedRow(k)}

\* the map the accepted rows among the first n make
AcceptedMap(n) ==
    [i \in {RowChannel(k).index : k \in AcceptedRows(n)} |->
        RowChannel(CHOOSE k \in AcceptedRows(n) : RowChannel(k).index = i)]

\* the 1-based line of the file on which record k starts
RECURSIVE SourceLine(_)
SourceLine(k) == IF k = 1 THEN 1 ELSE SourceLine(k - 1) + rows[k - 1].nlines

\* the members of a set of numbers, in increasing order
RECURSIVE Sorted(_)
Sorted(S) == IF S = {} THEN << >> ELSE <<Min(S)>> \o Sorted(S \ {Min(S)})

\* C1: read returns the accumulated map exactly when no row is offending
\* (a field fails validation, or the index repeats an accepted one); with an
\* offending row it returns None whatever was accepted, and verify exits
\* with the error message.
C1_ReadReturnsMapIffNoError ==
    /\ pc \in {"returned", "exit"} =>
          IF OffendingRows(Len(rows)) = {}
          THEN ret = Some(AcceptedMap(Len(rows)))
          ELSE ret = None
    /\ pc = "exit" =>
          (status = "errors in csv" <=> OffendingRows(Len(rows)) # {})

\* an offending row followed by a row that was accepted: None is returned
\* although the dict holds a channel
C1_Witness ==
    /\ pc = "exit"
    /\ ret = None
    /\ status = "errors in csv"
    /\ \E k \in 1..Len(rows) : \E j \in (k + 1)..Len(rows) :
          IsOffendingRow(k) /\ IsAcceptedRow(j)
    /\ channels # NoChannels

\* C5: read goes through every row and reports one error per offending data
\* row, each with the 1-based line of the file the row is on: K offending
\* rows give K reports and an error count of K.
C5_OneReportPerOffendingRow ==
    pc = "returned" =>
        /\ row = Len(rows)
        /\ errors = Cardinality(OffendingRows(Len(rows)))
        /\ Len(reports) = errors
        /\ \A n \in 1..Len(reports) :
              reports[n].line = SourceLine(Sorted(OffendingRows(Len(rows)))[n])

\* C9: the first row, an empty row, a row with fewer than 3 fields and a row
\* whose first trimmed field is empty or starts with "#" are skipped: the
\* step over such a row leaves the map, the error count and the reports
\* alone; the step over any other row either adds a channel or counts one
\* error.
C9_SkippedRowsLeaveNoTrace ==
    [][ (pc = "read" /\ row' = row + 1) =>
           IF IsSkippedRow(row + 1)
           THEN channels' = channels /\ errors' = errors /\ reports' = reports
           ELSE \/ /\ errors' = errors /\ reports' = reports
                   /\ Cardinality(DOMAIN channels') = Cardinality(DOMAIN channels) + 1
                \/ /\ errors' = errors + 1 /\ Len(reports') = Len(reports) + 1
                   /\ channels' = channels ]_vars

\* a file of three skipped rows, the first of which reads like a valid
\* data row, has been read: nothing was stored, nothing counted
C9_Witness ==
    /\ pc = "exit"
    /\ Len(rows) = 3
    /\ Len(Fields(1)) >= 3
    /\ parse_row(Trim(Fields(1))).ok
    /\ \A k \in 1..3 : IsSkippedRow(k)
    /\ Len(Fields(2)) = 2
    /\ Len(Fields(3)) >= 3
    /\ Strip(Fields(3)[1]) # << >>
    /\ ret = Some(NoChannels) /\ errors = 0 /\ status = "ok"

(***************************************************************************)
(* One data row with its optional columns, read by verify: SpecRow         *)
(***************************************************************************)
MaxColumns == 9

HeaderRecord == Record(<< <<"C","h","a","n","n","e","l">>, <<"N","a","m","e">>, <<"F","r","e","q","u","e","n","c","y">> >>, 1)

RequiredColumns == << <<"7">>, <<"P","M","R"," ","7">>, <<"4","4","6",".","0","0","6","2">> >>

\* texts of column c (1-based): empty, blank, a value that is not the
\* default, a text that fails validation; anything goes after column 8
ColumnTexts(c) ==
    CASE c = 4 -> {<< >>, <<" ">>, <<"n","f","m">>, <<"x","x">>}
      [] c = 5 -> {<< >>, <<" ">>, <<"s","e","a","r","c","h">>, <<"x","x">>}
      [] c = 6 -> {<< >>, <<" ">>, <<"-","5">>, <<"9">>}
      [] c = 7 -> {<< >>, <<" ">>, <<"Y","e","s">>, <<"m","a","y","b","e">>}
      [] c = 8 -> {<< >>, <<" ">>, <<"T","R","U","E">>, <<"2">>}
      [] OTHER -> {<< >>, <<"x","x">>}

RECURSIVE OptionalColumns(_)
OptionalColumns(n) ==
    IF n = 0 THEN {<< >>}
    ELSE {Append(t, o) : t \in OptionalColumns(n - 1), o \in ColumnTexts(n + 3)}

DataRows ==
    UNION {{RequiredColumns \o t : t \in OptionalColumns(n)} : n \in 0..(MaxColumns - 3)}

InitRow ==
    /\ rows \in {<<HeaderRecord, Record(d, 1)>> : d \in DataRows}
    /\ ReadStart
    /\ FIdle
    /\ command = "verify" /\ banks = << >> /\ empty = FALSE /\ model = ""
    /\ device = {} /\ ops = << >> /\ bank = 0 /\ slot = 0 /\ status = ""
    /\ pc = "read"

NextRow == SkipHeader \/ RowInvalid \/ RowAccepted \/ ReadReturn \/ VerifyExit

SpecRow == InitRow /\ [][NextRow]_vars

\* column c (1-based) of the data row is absent or empty after trimming
IsBlankColumn(c) == Len(Fields(2)) < c \/ Strip(Fields(2)[c]) = << >>

\* the texts of ColumnTexts that pass validation
GoodColumnTexts == {<<"n","f","m">>, <<"s","e","a","r","c","h">>, <<"-","5">>, <<"Y","e","s">>, <<"T","R","U","E">>}

ColumnError(c) ==
    CASE c = 4 -> "Invalid modulation"
      [] c = 5 -> "Invalid CTCSS/DCS"
      [] c = 6 -> "Invalid delay"
      [] c = 7 -> "Invalid lockout"
      [] c = 8 -> "Invalid priority"

\* does channel ch hold the default in the field of column c
HasDefault(ch, c) ==
    CASE c = 4 -> ch.modulation = <<"A","U","T","O">>
      [] c = 5 -> ch.tqcode = 0
      [] c = 6 -> ch.delay = 2
      [] c = 7 -> ch.lockout = FALSE
      [] c = 8 -> ch.priority = FALSE

\* C8: in a data row with valid index, name and frequency, a column 4..8
\* that is absent or empty after trimming raises no error and gives the
\* default (AUTO, 0, 2, false, false); the row is accepted when every other
\* column is valid; columns after the 8th change nothing.
C8_OptionalColumnsDefault ==
    pc \in {"returned", "exit"} =>
        /\ \A c \in 4..8 : IsBlankColumn(c) =>
              /\ \A n \in 1..Len(reports) : reports[n].msg # ColumnError(c)
              /\ ret.ok => HasDefault(ret.val[7], c)
        /\ (\A c \in 4..8 : IsBlankColumn(c) \/ Fields(2)[c] \in GoodColumnTexts)
              => ret.ok /\ DOMAIN ret.val = {7}
        /\ ret = read(<<rows[1], Record(Take(Fields(2), 8), 1)>>)

\* a row of 9 columns with blank modulation and lockout, a tone, a delay and
\* a priority of its own and a 9th column has been accepted
C8_Witness ==
    /\ pc = "exit"
    /\ Len(Fields(2)) = 9
    /\ Fields(2)[9] = <<"x","x">>
    /\ Fields(2)[4] = <<" ">> /\ Fields(2)[7] = << >>
    /\ ret.ok
    /\ ret.val[7] = Channel(7, <<"P","M","R"," ","7">>, <<"4","4","6",".","0","0","6","2">>, <<"A","U","T","O">>, 127, -5, FALSE, TRUE)

(***************************************************************************)
(* main, commands import and export, against the scanner: SpecMain         *)
(***************************************************************************)
\* -b takes bank numbers of range(1, 11)
NumBanks == 10

\* default=range(1, 11)
DefaultBanks == [i \in 1..NumBanks |-> i]

\* the slots stop one short of the end of the bank
LastIndexShort(b) == b * 50 - 1

\* range(bank * 50 - 49, bank * 50 + 1)
FirstIndex(b) == b * 50 - 49

LastIndex(b) == b * 50

\* a call issued to the scanner: the method, the index, the channel sent
Call(op, i, ch) == [op |-> op, index |-> i, channel |-> ch]

SetCall(ch) == Call("set_channel", ch.index, ch)

DeleteCall(i) == Call("delete_channel", i, NoChannel)

\* what get_channel(i) answers for a programmed slot
DeviceChannel(i) ==
    Channel(i, <<"C","H">>, <<"4","4","6",".","0","0","6","2">>, <<"F","M">>, 0, 2, FALSE, FALSE)

MaxBanks == 2

MaxMainRows == 2

\* bank lists the option -b accepts, and the default
BankLists ==
    {DefaultBanks}
    \cup {b \in SeqsUpTo({1, 2, NumBanks}, MaxBanks) : b # << >>}

MainCatalogue ==
    { Record(<< <<"1">>, <<"P","M","R"," ","1">>, <<"4","4","6",".","0","0","6","2">>, <<"F","M">>, <<"n","o","n","e">>, <<"2">>, <<"n","o">>, <<"n","o">> >>, 1),
      Record(<< <<"0","1">>, <<"P","M","R"," ","1","b">>, <<"4","4","6",".","5">> >>, 1),
      Record(<< <<"5","1">>, <<"P","M","R"," ","5","1">>, <<"4","4","6",".","0","1","8","7">>, <<"n","f","m">> >>, 1),
      Record(<< <<"2">>, <<"P","M","R"," ","2">>, <<"a","b","c">> >>, 1) }

MainFiles ==
    {<<HeaderRecord>> \o f : f \in SeqsUpTo(MainCatalogue, MaxMainRows)}

InitMain ==
    /\ command \in {"import", "export"}
    /\ banks \in BankLists
    /\ IF command = "import"
       THEN /\ rows \in MainFiles
            /\ model \in {"BC125AT", "UBC125XLT"}
            /\ empty = FALSE /\ device = {}
       ELSE /\ rows = << >>
            /\ model = "BC125AT"
            /\ empty \in BOOLEAN
            /\ device \in {{}, {1, 2, 500}}
    /\ ReadStart
    /\ FIdle
    /\ ops = << >> /\ bank = 0 /\ slot = 0 /\ status = ""
    /\ pc = "start"

\* sys.exit(...) and the end of main
Exit(how) == pc' = "exit" /\ status' = how

\* channels = importer.read(fh); if channels is None: sys.exit(...)
ImportRead ==
    /\ pc = "start"
    /\ command = "import"
    /\ \E st \in {ReadRows(rows, Len(rows))} :
          /\ ret' = ReadResult(st)
          /\ channels' = ReadResult(st).val
          /\ errors' = st.errors
          /\ reports' = st.reports
          /\ IF ReadFailed(ReadResult(st))
             THEN Exit("errors in csv")
             ELSE pc' = "model" /\ status' = status
    /\ row' = Len(rows)
    /\ UNCHANGED <<rows, fvars, command, banks, empty, model, device, ops, bank, slot>>

\* if scanner.get_model() == "UBC125XLT": NFM is refused
ImportGetModel ==
    /\ pc = "model"
    /\ ops' = Append(ops, Call("get_model", 0, NoChannel))
    /\ IF model = "UBC125XLT"
          /\ \E i \in DOMAIN channels : channels[i].modulation = <<"N","F","M">>
       THEN Exit("nfm not supported")
       ELSE pc' = "enter" /\ status' = status
    /\ UNCHANGED <<rvars, fvars, command, banks, empty, model, device, bank, slot>>

\* fh = open(params.output, "w"), or sys.stdout
ExportOpen ==
    /\ pc = "start"
    /\ command = "export"
    /\ \/ Exit("cannot open output")
       \/ pc' = "enter" /\ status' = status
    /\ UNCHANGED <<rvars, fvars, command, banks, empty, model, device, ops, bank, slot>>

\* scanner.enter_programming(), then the head of the two loops
EnterProgramming ==
    /\ pc = "enter"
    /\ ops' = Append(ops, Call("enter_programming", 0, NoChannel))
    /\ bank' = 1
    /\ slot' = FirstIndex(banks[1])
    /\ pc' = "loop"
    /\ UNCHANGED <<rvars, fvars, command, banks, empty, model, device, status>>

\* the next index of the bank, the next bank, or the end of the loops
Advance ==
    IF slot < LastIndex(banks[bank])
    THEN slot' = slot + 1 /\ bank' = bank /\ pc' = pc
    ELSE IF bank < Len(banks)
    THEN slot' = FirstIndex(banks[bank + 1]) /\ bank' = bank + 1 /\ pc' = pc
    ELSE slot' = slot /\ bank' = bank /\ pc' = "leave"

\* if index in channels: scanner.set_channel(channels[index])
ImportSet ==
    /\ pc = "loop"
    /\ command = "import"
    /\ slot \in DOMAIN channels
    /\ ops' = Append(ops, SetCall(channels[slot]))
    /\ Advance
    /\ UNCHANGED <<rvars, fvars, command, banks, empty, model, device, status>>

\* else: scanner.delete_channel(index)
ImportDelete ==
    /\ pc = "loop"
    /\ command = "import"
    /\ slot \notin DOMAIN channels
    /\ ops' = Append(ops, DeleteCall(slot))
    /\ Advance
    /\ UNCHANGED <<rvars, fvars, command, banks, empty, model, device, status>>

\* channel = scanner.get_channel(index);
\* if channel or params.empty: channels[index] = channel
ExportGet ==
    /\ pc = "loop"
    /\ command = "export"
    /\ ops' = Append(ops, Call("get_channel", slot, NoChannel))
    /\ channels' =
          IF slot \in device \/ empty
          THEN [i \in DOMAIN channels \cup {slot} |->
                   IF i # slot THEN channels[i]
                   ELSE IF slot \in device THEN DeviceChannel(slot) ELSE NoChannel]
          ELSE channels
    /\ Advance
    /\ UNCHANGED <<rows, row, errors, reports, ret, fvars, command, banks,
                   empty, model, device, status>>

\* scanner.exit_programming(); the import ends, the export goes on to write
ExitProgramming ==
    /\ pc = "leave"
    /\ ops' = Append(ops, Call("exit_programming", 0, NoChannel))
    /\ IF command = "import" THEN Exit("ok") ELSE pc' = "write" /\ status' = status
    /\ UNCHANGED <<rvars, fvars, command, banks, empty, model, device, bank, slot>>

\* exporter.write(channels, fh, params.sparse)
ExportWrite ==
    /\ pc = "write"
    /\ Exit("ok")
    /\ UNCHANGED <<rvars, fvars, command, banks, empty, model, device, ops, bank, slot>>

\* the call main is about to issue
PendingCall ==
    CASE pc = "model" -> Call("get_model", 0, NoChannel)
      [] pc = "enter" -> Call("enter_programming", 0, NoChannel)
      [] pc = "leave" -> Call("exit_programming", 0, NoChannel)
      [] pc = "loop" /\ command = "export" -> Call("get_channel", slot, NoChannel)
      [] pc = "loop" /\ command = "import" /\ slot \in DOMAIN channels
            -> SetCall(channels[slot])
      [] OTHER -> DeleteCall(slot)

\* a protocol fault: the call raises, nothing in main catches it
ScannerFault ==
    /\ pc \in {"model", "enter", "loop", "leave"}
    /\ ops' = Append(ops, PendingCall)
    /\ Exit("fault")
    /\ UNCHANGED <<rvars, fvars, command, banks, empty, model, device, bank, slot>>

NextMain ==
    \/ ImportRead \/ ImportGetModel \/ ExportOpen
    \/ EnterProgramming \/ ImportSet \/ ImportDelete \/ ExportGet
    \/ ExitProgramming \/ ExportWrite
    \/ ScannerFault

SpecMain == InitMain /\ [][NextMain]_vars

ProgrammingOps == {"enter_programming", "set_channel", "delete_channel"}

ChannelOps == {"set_channel", "delete_channel", "get_channel"}

\* C2: an import whose CSV input holds an offending row never issues
\* enter_programming, set_channel or delete_channel, and ends with the
\* error message.
C2_NoProgrammingAfterCsvError ==
    (command = "import" /\ OffendingRows(Len(rows)) # {}) =>
        /\ \A n \in 1..Len(ops) : ops[n].op \notin ProgrammingOps
        /\ pc = "exit" => status = "errors in csv"

\* the import of a file with an offending row after an accepted one has
\* ended without a call to the scanner
C2_Witness ==
    /\ command = "import"
    /\ pc = "exit"
    /\ status = "errors in csv"
    /\ errors > 0
    /\ \E k \in 1..Len(rows) : IsAcceptedRow(k)
    /\ OffendingRows(Len(rows)) # {}
    /\ ops = << >>

\* C3: a run that entered programming mode and issued a channel operation
\* ends with exactly one exit_programming, issued after the last channel
\* operation, on every path, a failed channel operation included.
C3_ExitProgrammingOnEveryPath ==
    (pc = "exit" /\ \E n \in 1..Len(ops) : ops[n].op \in ChannelOps) =>
        /\ ops[Len(ops)].op = "exit_programming"
        /\ Cardinality({n \in 1..Len(ops) : ops[n].op = "exit_programming"}) = 1

\* the set_channel and delete_channel calls issued for index i
OpsOn(i) ==
    SelectSeq(ops, LAMBDA c : c.op \in {"set_channel", "delete_channel"} /\ c.index = i)

\* the one call the map asks for at index i
CallFor(i) == IF i \in DOMAIN ret.val THEN SetCall(ret.val[i]) ELSE DeleteCall(i)

BankOf(i) == ((i - 1) \div 50) + 1

Occurrences(b) == Cardinality({k \in 1..Len(banks) : banks[k] = b})

ImportDone == command = "import" /\ pc = "exit" /\ status = "ok"

\* C4 as stated: after the write loop every index of a selected bank has had
\* exactly one call, set_channel(channels[i]) or delete_channel(i), and no
\* other index has had any.
C4_ExactlyOneCallPerIndex ==
    ImportDone =>
        \A i \in 1..(50 * NumBanks) :
            OpsOn(i) = IF Occurrences(BankOf(i)) > 0 THEN <<CallFor(i)>> ELSE << >>

\* C4 amended: every index of a bank has had the call the map asks for once
\* for each time its bank stands in the list (once when the bank is listed
\* once), and an index of a bank that is not listed has had none.
C4_OneCallPerListedBank ==
    ImportDone =>
        \A i \in 1..(50 * NumBanks) :
            OpsOn(i) = [k \in 1..Occurrences(BankOf(i)) |-> CallFor(i)]

\* bank 1 listed twice, with a map that holds channel 1 and, outside the
\* listed banks, channel 51: 100 calls on bank 1, none on 51
C4_Witness ==
    /\ ImportDone
    /\ banks = <<1, 1>>
    /\ DOMAIN ret.val = {1, 51}
    /\ OpsOn(1) = <<SetCall(ret.val[1]), SetCall(ret.val[1])>>
    /\ OpsOn(50) = <<DeleteCall(50), DeleteCall(50)>>
    /\ OpsOn(51) = << >>
    /\ Len(ops) = 103

====
